---- MODULE Spec2Model ----
(***************************************************************************)
(* Model of Backend/app/main.py: the camera-configuration store            *)
(* (collection camera_details), the analytics log (collection              *)
(* alpr_analytics) and the request handlers that act on them.              *)
(*                                                                         *)
(* A collection is a sequence of documents in natural (insertion) order.   *)
(* A document is a function from field names to values, so that a          *)
(* document may lack a field.  Every handler is one action; `last` records *)
(* the request just served, its response status and the store it started   *)
(* from.                                                                   *)
(***************************************************************************)
EXTENDS Integers, Sequences, FiniteSets, TLC

VARIABLES
    store,      \* collection camera_details
    log,        \* collection alpr_analytics
    last,       \* the request served last: [op, cam, arg, status, body, pre]
    pend,       \* handlers between their lookup and their write (concurrent runs)
    gone        \* <<camera_id, gate_id>> removed by DeleteGate, not reintroduced since

vars == <<store, log, last, pend, gone>>

----------------------------------------------------------------------------
(* Bounds of the model *)

MaxGates == 3       \* elements of one gate list
MaxParking == 2     \* elements of one wrong_parking list
MaxBatch == 2       \* elements of one request body list
MaxLog == 2         \* records appended to alpr_analytics
MaxHandlers == 2    \* requests handled concurrently

----------------------------------------------------------------------------
(* Values *)

CameraIds == {"1", "cam"}
Urls == {"rtsp://a", "rtsp://b"}
Algorithms == {"anpr"}
GateIds == {"g1", "g2"}
ParkingIds == {"p1", "p2"}

\* class Point
Point(px, py) == [x |-> px, y |-> py]

TripA == <<Point(0, 0), Point(4, 0)>>
DirA == <<Point(2, 0), Point(2, 3)>>

\* class GateROI
GateROI == [type : {"in", "out"}, id : GateIds, trip_line : {TripA}, dir_line : {DirA}]

\* class ROIStructure
ROIStructure == {[x1 |-> 0, y1 |-> 0, width |-> 2, height |-> 2],
                 [x1 |-> 1, y1 |-> 1, width |-> 3, height |-> 1]}

\* class WrongParkingROI
WrongParkingROI == [id : ParkingIds, roi : ROIStructure]

\* all sequences over S of length at most n
SeqUpTo(S, n) == UNION {[1..k -> S] : k \in 0..n}

\* class CameraConfig, with the lists the model explores
CameraConfig ==
    [camera_id : CameraIds, rtsp_url : Urls, algorithm : Algorithms,
     gate : SeqUpTo(GateROI, 1), wrong_parking : {<<>>}]

\* BSON values of a query: a string never equals a number
BsonStr(s) == [t |-> "str", v |-> s]
BsonInt(n) == [t |-> "int", v |-> n]

\* FastAPI's conversion of a path segment to a parameter declared int:
\* the segment's decimal value, or no value (a 422 response, no handler run)
IntLiterals == [s \in {"1"} |-> 1]
IsIntLiteral(s) == s \in DOMAIN IntLiterals
ParseInt(s) == IntLiterals[s]

----------------------------------------------------------------------------
(* Documents *)

HasField(d, k) == k \in DOMAIN d
GetOr(d, k, dflt) == IF HasField(d, k) THEN d[k] ELSE dflt
SetField(d, k, v) == [f \in DOMAIN d \cup {k} |-> IF f = k THEN v ELSE d[f]]

\* {"camera_id": q}: the stored camera_id is a string (CameraConfig.camera_id: str,
\* and the path parameter of POST /gate is a str)
MatchCamera(d, q) == q.t = "str" /\ d.camera_id = q.v

\* {"<field>.id": id}: the field is an array holding an element with that id
MatchElem(d, field, id) ==
    HasField(d, field) /\ \E i \in 1..Len(d[field]) : d[field][i].id = id

\* the positional operator $: the first array element the query matched
FirstElem(xs, id) == CHOOSE i \in 1..Len(xs) : xs[i].id = id /\ \A j \in 1..(i-1) : xs[j].id # id

\* a mutant of Pull: only the first element with the id is removed
PullFirstOnly(xs, id) ==
    IF \A i \in 1..Len(xs) : xs[i].id # id THEN xs
    ELSE SubSeq(xs, 1, FirstElem(xs, id) - 1) \o SubSeq(xs, FirstElem(xs, id) + 1, Len(xs))

RECURSIVE Pull(_, _)
\* $pull {field: {id: id}}: every element with that id is removed, the order kept
Pull(xs, id) ==
    IF xs = <<>> THEN <<>>
    ELSE IF Head(xs).id = id THEN Pull(Tail(xs), id)
    ELSE <<Head(xs)>> \o Pull(Tail(xs), id)

----------------------------------------------------------------------------
(* Collection operations (pymongo): queries and updates are documents *)

\* a mutant of SetPositional: every element with the id is replaced
SetEveryMatch(xs, id, x) == [i \in 1..Len(xs) |-> IF xs[i].id = id THEN x ELSE xs[i]]

\* {"$set": {"<field>.$": x}}: the first element the query matched is replaced
SetPositional(xs, id, x) == [xs EXCEPT ![FirstElem(xs, id)] = x]

\* {"camera_id": v}
ByCamera(v) == [camera_id |-> v]

\* {"camera_id": v, "<field>.id": id}
ByCameraAndElem(v, field, id) == [camera_id |-> v, elem |-> [field |-> field, id |-> id]]

\* whether document d matches query q
Matches(d, q) ==
    /\ MatchCamera(d, q.camera_id)
    /\ HasField(q, "elem") => MatchElem(d, q.elem.field, q.elem.id)

\* {"$set": {field: value}}
Set(field, value) == [op |-> "$set", field |-> field, value |-> value]

\* {"$set": {"<field>.$": value}} under a query on "<field>.id": id
SetElem(field, id, value) == [op |-> "$set.$", field |-> field, id |-> id, value |-> value]

\* {"$pull": {field: {"id": id}}}
PullElems(field, id) == [op |-> "$pull", field |-> field, id |-> id]

\* {"$push": {field: value}}
Push(field, value) == [op |-> "$push", field |-> field, value |-> value]

\* document d after update u
Apply(d, u) ==
    CASE u.op = "$set" -> SetField(d, u.field, u.value)
      [] u.op = "$set.$" -> [d EXCEPT ![u.field] = SetPositional(d[u.field], u.id, u.value)]
      [] u.op = "$pull" -> IF HasField(d, u.field)
                           THEN [d EXCEPT ![u.field] = Pull(d[u.field], u.id)] ELSE d
      [] u.op = "$push" -> SetField(d, u.field, Append(GetOr(d, u.field, <<>>), u.value))

\* find_one: the index of the first document matching, 0 for None
FindOne(s, q) ==
    IF \E i \in 1..Len(s) : Matches(s[i], q)
    THEN CHOOSE i \in 1..Len(s) : Matches(s[i], q) /\ \A j \in 1..(i-1) : ~Matches(s[j], q)
    ELSE 0

InsertOne(s, d) == Append(s, d)

RemoveAt(s, i) == [j \in 1..(Len(s) - 1) |-> IF j < i THEN s[j] ELSE s[j + 1]]

\* update_one: the first matching document is updated;
\* matched_count counts the match, modified_count a match that changed
UpdateOne(s, q, u) ==
    LET i == FindOne(s, q) IN
    IF i = 0 THEN [store |-> s, matched |-> 0, modified |-> 0]
    ELSE [store |-> [s EXCEPT ![i] = Apply(s[i], u)], matched |-> 1,
          modified |-> IF Apply(s[i], u) = s[i] THEN 0 ELSE 1]

\* find_one_and_delete: removes the first matching document and returns it
FindOneAndDelete(s, q) ==
    LET i == FindOne(s, q) IN
    IF i = 0 THEN [store |-> s, found |-> FALSE]
    ELSE [store |-> RemoveAt(s, i), found |-> TRUE]

----------------------------------------------------------------------------
(* Responses *)

Served(op, cam, arg, status, body) ==
    [op |-> op, cam |-> cam, arg |-> arg, status |-> status, body |-> body, pre |-> store]

NoRequest == [op |-> "none", cam |-> "", arg |-> <<>>, status |-> 0, body |-> <<>>, pre |-> <<>>]

Init ==
    /\ store = <<>>
    /\ log = <<>>
    /\ last = NoRequest
    /\ pend = <<>>
    /\ gone = {}

----------------------------------------------------------------------------
(* Camera configurations *)

\* find_one({"camera_id": camera_id}) of a handler whose camera_id is a str
Lookup(s, camera_id) ==
    LET i == FindOne(s, ByCamera(BsonStr(camera_id))) IN
    IF i = 0 THEN [found |-> FALSE] ELSE [found |-> TRUE, doc |-> s[i]]

\* create_config after its find_one: the response and the store it leaves
CreateWrite(s, config, existing) ==
    IF existing.found
    THEN [store |-> s, status |-> 400, body |-> "exists"]
    ELSE [store |-> InsertOne(s, config), status |-> 200, body |-> "created"]

\* POST /config
create_config(config) ==
    LET r == CreateWrite(store, config, Lookup(store, config.camera_id)) IN
    /\ store' = r.store
    /\ last' = Served("Create", config.camera_id, config, r.status, r.body)
    /\ UNCHANGED <<log, pend, gone>>

\* PUT /config/{camera_id}?rtsp_url=
update_rtsp_url(camera_id, rtsp_url) ==
    LET existing == Lookup(store, camera_id)
        result == UpdateOne(store, ByCamera(BsonStr(camera_id)), Set("rtsp_url", rtsp_url))
    IN
    /\ IF ~existing.found
       THEN /\ store' = store
            /\ last' = Served("UpdateStreamURL", camera_id, rtsp_url, 404, "Config not found")
       ELSE /\ store' = result.store
            /\ last' = IF result.modified = 0
                       THEN Served("UpdateStreamURL", camera_id, rtsp_url, 404, "RTSP URL not updated")
                       ELSE Served("UpdateStreamURL", camera_id, rtsp_url, 200, "updated")
    /\ UNCHANGED <<log, pend, gone>>

\* DELETE /config/{camera_id}, camera_id: int
delete_config(segment) ==
    /\ IF ~IsIntLiteral(segment)
       THEN /\ store' = store
            /\ last' = Served("Delete", segment, <<>>, 422, "int_parsing")
       ELSE LET result == FindOneAndDelete(store, ByCamera(BsonInt(ParseInt(segment)))) IN
            /\ store' = result.store
            /\ last' = IF result.found
                       THEN Served("Delete", segment, <<>>, 200, "deleted")
                       ELSE Served("Delete", segment, <<>>, 404, "Config not found")
    /\ UNCHANGED <<log, pend, gone>>

----------------------------------------------------------------------------
(* Gates *)

\* a mutant of GateAppend: the request's list replaces the stored one
GateReplaceAll(existing_gate, gate_config) == gate_config

\* existing_config.get("gate", []) + [gate.dict() for gate in gate_config]
GateAppend(existing_gate, gate_config) == existing_gate \o gate_config

\* POST /gate/{camera_id} after its find_one
GateWrite(s, camera_id, gate_config, existing) ==
    IF ~existing.found
    THEN [store |-> InsertOne(s, [camera_id |-> camera_id, gate |-> gate_config]),
          status |-> 200, body |-> "created"]
    ELSE LET updated_gate_config == GateAppend(GetOr(existing.doc, "gate", <<>>), gate_config)
             result == UpdateOne(s, ByCamera(BsonStr(camera_id)), Set("gate", updated_gate_config))
         IN [store |-> result.store, status |-> 200, body |-> "updated"]

\* the ids a gate list holds
IdsOf(xs) == {xs[i].id : i \in 1..Len(xs)}

\* the gate list of the first document of a camera, <<>> when there is none
GateListOf(s, camera_id) ==
    LET e == Lookup(s, camera_id) IN
    IF e.found THEN GetOr(e.doc, "gate", <<>>) ELSE <<>>

\* POST /gate/{camera_id}
upsert_gate_list(camera_id, gate_config) ==
    LET r == GateWrite(store, camera_id, gate_config, Lookup(store, camera_id)) IN
    /\ Len(GateListOf(r.store, camera_id)) <= MaxGates
    /\ store' = r.store
    /\ last' = Served("UpsertGateList", camera_id, gate_config, r.status, r.body)
    /\ gone' = gone \ {<<camera_id, id>> : id \in IdsOf(gate_config)}
    /\ UNCHANGED <<log, pend>>

\* PUT /gate/{camera_id}/{gate_id}
replace_gate(camera_id, gate_id, gate_config) ==
    LET result == UpdateOne(store, ByCameraAndElem(BsonStr(camera_id), "gate", gate_id),
                            SetElem("gate", gate_id, gate_config))
        arg == [gate_id |-> gate_id, gate |-> gate_config]
    IN
    /\ store' = result.store
    /\ IF result.matched = 0
       THEN /\ last' = Served("ReplaceGate", camera_id, arg, 404, "not found")
            /\ gone' = gone
       ELSE /\ last' = Served("ReplaceGate", camera_id, arg, 200, "updated")
            /\ gone' = gone \ {<<camera_id, gate_config.id>>}
    /\ UNCHANGED <<log, pend>>

\* DELETE /gate/{camera_id}/{gate_id}
delete_gate(camera_id, gate_id) ==
    LET result == UpdateOne(store, ByCamera(BsonStr(camera_id)), PullElems("gate", gate_id))
    IN
    /\ store' = result.store
    /\ IF result.modified = 0
       THEN /\ last' = Served("DeleteGate", camera_id, gate_id, 404, "not found")
            /\ gone' = gone
       ELSE /\ last' = Served("DeleteGate", camera_id, gate_id, 200, "deleted")
            /\ gone' = gone \cup {<<camera_id, gate_id>>}
    /\ UNCHANGED <<log, pend>>

----------------------------------------------------------------------------
(* Wrong-parking zones *)

\* one pass of the loop of update_wrong_parking_config: the store it leaves and
\* whether it raised HTTPException(404)
UpsertItem(s, camera_id, parking_config) ==
    LET q == ByCameraAndElem(BsonStr(camera_id), "wrong_parking", parking_config.id)
        existing_config == FindOne(s, q)
        set == UpdateOne(s, q, SetElem("wrong_parking", parking_config.id, parking_config))
        push == UpdateOne(s, ByCamera(BsonStr(camera_id)), Push("wrong_parking", parking_config))
    IN
    IF existing_config # 0
    THEN [store |-> set.store, raised |-> set.modified = 0, body |-> "Failed to update"]
    ELSE [store |-> push.store, raised |-> push.modified = 0, body |-> "Failed to create"]

RECURSIVE UpsertItems(_, _, _)
\* the loop of update_wrong_parking_config: it stops at the first item that raises
UpsertItems(s, camera_id, items) ==
    IF items = <<>> THEN [store |-> s, status |-> 200, body |-> "updated"]
    ELSE LET r == UpsertItem(s, camera_id, Head(items)) IN
         IF r.raised THEN [store |-> r.store, status |-> 404, body |-> r.body]
         ELSE UpsertItems(r.store, camera_id, Tail(items))

\* the wrong_parking list of the first document of a camera
ParkingListOf(s, camera_id) ==
    LET e == Lookup(s, camera_id) IN
    IF e.found THEN GetOr(e.doc, "wrong_parking", <<>>) ELSE <<>>

\* POST /wrong_parking/{camera_id}
update_wrong_parking_config(camera_id, wrong_parking_config) ==
    LET r == UpsertItems(store, camera_id, wrong_parking_config) IN
    /\ Len(ParkingListOf(r.store, camera_id)) <= MaxParking
    /\ store' = r.store
    /\ last' = Served("UpsertWrongParking", camera_id, wrong_parking_config, r.status, r.body)
    /\ UNCHANGED <<log, pend, gone>>

\* the handlers registered on DELETE /wrong_parking/{camera_id}/{wrong_parking_id},
\* in registration order
WrongParkingDeleteRoutes == <<"delete_wrong_parking_config", "delete_gate_config">>

\* the router serves a request with the first registered route that matches
Dispatch(routes) == Head(routes)

\* the body both handlers share: update_one with $pull, 404 when modified_count == 0
PullWrongParking(s, camera_id, wrong_parking_id) ==
    LET result == UpdateOne(s, ByCamera(BsonStr(camera_id)),
                            PullElems("wrong_parking", wrong_parking_id))
    IN [store |-> result.store,
        status |-> IF result.modified = 0 THEN 404 ELSE 200,
        body |-> IF result.modified = 0 THEN "not found" ELSE "deleted"]

\* try: ... except Exception as e: raise HTTPException(status_code=500, detail=str(e))
\* around a body that raises HTTPException for every status but 200
ExceptAs500(r) == IF r.status = 200 THEN r ELSE [r EXCEPT !.status = 500]

\* DELETE /wrong_parking/{camera_id}/{wrong_parking_id}
delete_wrong_parking(camera_id, wrong_parking_id) ==
    LET inner == PullWrongParking(store, camera_id, wrong_parking_id)
        r == IF Dispatch(WrongParkingDeleteRoutes) = "delete_wrong_parking_config"
             THEN ExceptAs500(inner)
             ELSE inner
    IN
    /\ store' = r.store
    /\ last' = Served("DeleteWrongParking", camera_id, wrong_parking_id, r.status, r.body)
    /\ UNCHANGED <<log, pend, gone>>

----------------------------------------------------------------------------
(* Analytics: strings that are compared are sequences of character codes *)

\* n in decimal, zero-padded to w digits
RECURSIVE Pad(_, _)
Pad(n, w) == IF w = 0 THEN <<>> ELSE Pad(n \div 10, w - 1) \o <<48 + (n % 10)>>

Dash == 45
Colon == 58
Underscore == 95

\* strftime("%Y-%m-%d_%H:%M:%S") of a date <<y, m, d>> and a time <<h, m, s>>
Stamp(day, time) ==
    Pad(day[1], 4) \o <<Dash>> \o Pad(day[2], 2) \o <<Dash>> \o Pad(day[3], 2) \o <<Underscore>>
        \o Pad(time[1], 2) \o <<Colon>> \o Pad(time[2], 2) \o <<Colon>> \o Pad(time[3], 2)

RECURSIVE StrLeq(_, _)
\* a <= b for strings: the first differing character decides, a prefix is smaller
StrLeq(a, b) ==
    IF a = <<>> THEN TRUE
    ELSE IF b = <<>> THEN FALSE
    ELSE IF Head(a) # Head(b) THEN Head(a) < Head(b)
    ELSE StrLeq(Tail(a), Tail(b))

Yesterday == <<2024, 9, 30>>
Today == <<2024, 10, 1>>
Tomorrow == <<2024, 10, 2>>
Midnight == <<0, 0, 0>>
LastSecond == <<23, 59, 59>>

\* the timestamps of the records the model stores
Stamps == {Stamp(Yesterday, LastSecond), Stamp(Today, Midnight),
           Stamp(Today, LastSecond), Stamp(Tomorrow, Midnight)}

\* Payload.gate: dict
GateDicts == {[type |-> "Entry"], [type |-> "Exit"], [type |-> "NotApplicable"], [lane |-> "north"]}

\* class Payload
Payload ==
    [camera_id : {1}, gate : GateDicts, vehicle : {"car", "truck", "bus"},
     plate_type : {"private"}, license_plate : {"KA01AB1234"}, plate_img : {"img"},
     timestamp : Stamps]

\* vehicle_types
vehicle_types == <<"car", "truck", "bicycle", "motorcycle", "autorickshaw">>

Range(f) == {f[i] : i \in DOMAIN f}

\* a group key: <<value>>, or <<>> for a missing field (null)
KeyOf(r, key) ==
    IF key = "$vehicle" THEN <<r.vehicle>>
    ELSE IF HasField(r.gate, "type") THEN <<r.gate.type>> ELSE <<>>

\* {"timestamp": {"$gte": start_of_day, "$lte": end_of_day}}
InWindow(r, start_of_day, end_of_day) ==
    StrLeq(start_of_day, r.timestamp) /\ StrLeq(r.timestamp, end_of_day)

\* the $match stage: the vehicle values accepted and the window <<start, end>>
\* of timestamps, <<>> when the stage does not restrict the timestamp
MatchStage(r, match) ==
    /\ r.vehicle \in match.vehicles
    /\ match.window # <<>> => InWindow(r, match.window[1], match.window[2])

\* [{"$match": match}, {"$group": {"_id": key, "count": {"$sum": 1}}}]: one item
\* per key that occurs among the matching records
Aggregate(s, match, key) ==
    LET hit == {i \in 1..Len(s) : MatchStage(s[i], match)} IN
    {[_id |-> k, count |-> Cardinality({i \in hit : KeyOf(s[i], key) = k})] :
        k \in {KeyOf(s[i], key) : i \in hit}}

\* {"vehicle": {"$in": vehicle_types}}
pipeline(window) == [vehicles |-> Range(vehicle_types), window |-> window]

\* a mutant of entry_exit_pipeline: the first pipeline's $match, copied
entry_exit_pipeline_copied(vehicle_type, window) ==
    [vehicles |-> Range(vehicle_types), window |-> window]

\* {"vehicle": vehicle_type}
entry_exit_pipeline(vehicle_type, window) == [vehicles |-> {vehicle_type}, window |-> window]

\* item["count"] of the item with the _id, dflt when there is none
Picked(items, id, dflt) ==
    IF \E it \in items : it._id = id THEN (CHOOSE it \in items : it._id = id).count ELSE dflt

\* vehicle_counts after the loops of a count handler: for each vehicle type the
\* initial entry with the fields the aggregation items set; today's handler
\* also stores "notapplicable", and only for a type that has such an item
VehicleCounts(s, window, daily) ==
    LET counts == Aggregate(s, pipeline(window), "$vehicle") IN
    [vt \in Range(vehicle_types) |->
        LET entry_exit_counts == Aggregate(s, entry_exit_pipeline(vt, window), "$gate.type")
            base == [count |-> Picked(counts, <<vt>>, 0),
                     entry_count |-> Picked(entry_exit_counts, <<"Entry">>, 0),
                     exit_count |-> Picked(entry_exit_counts, <<"Exit">>, 0)]
        IN IF daily /\ \E it \in entry_exit_counts : it._id = <<"NotApplicable">>
           THEN SetField(base, "notapplicable", Picked(entry_exit_counts, <<"NotApplicable">>, 0))
           ELSE base]

RECURSIVE SumField(_, _, _)
\* sum(vehicle_counts[vehicle_type][field] for vehicle_type in types)
SumField(vehicle_counts, field, types) ==
    IF types = <<>> THEN 0
    ELSE vehicle_counts[Head(types)][field] + SumField(vehicle_counts, field, Tail(types))

\* the rows appended for the vehicle types, in dict order
TypeRows(vehicle_counts) ==
    [i \in 1..Len(vehicle_types) |->
        [type |-> vehicle_types[i],
         count |-> vehicle_counts[vehicle_types[i]].count,
         entry_count |-> vehicle_counts[vehicle_types[i]].entry_count,
         exit_count |-> vehicle_counts[vehicle_types[i]].exit_count]]

\* get_vehicle_counts: the response
CountAllResponse(s) ==
    LET vehicle_counts == VehicleCounts(s, <<>>, FALSE) IN
    [status |-> 200,
     body |-> TypeRows(vehicle_counts)
                \o <<[type |-> "entry_count", count |-> SumField(vehicle_counts, "entry_count", vehicle_types)],
                     [type |-> "exit_count", count |-> SumField(vehicle_counts, "exit_count", vehicle_types)]>>]

\* get_vehicle_counts_today: the response; reading a key that vehicle_counts
\* does not hold raises KeyError, which the handler turns into status 500
CountTodayResponse(s, today_date) ==
    LET start_of_day == Stamp(today_date, Midnight)
        end_of_day == Stamp(today_date, LastSecond)
        vehicle_counts == VehicleCounts(s, <<start_of_day, end_of_day>>, TRUE)
    IN
    IF \E vt \in Range(vehicle_types) : ~HasField(vehicle_counts[vt], "notapplicable")
    THEN [status |-> 500, body |-> "'notapplicable'"]
    ELSE [status |-> 200,
          body |-> TypeRows(vehicle_counts)
                     \o <<[type |-> "entry_count", count |-> SumField(vehicle_counts, "entry_count", vehicle_types)],
                          [type |-> "exit_count", count |-> SumField(vehicle_counts, "exit_count", vehicle_types)],
                          [type |-> "N/A", count |-> SumField(vehicle_counts, "notapplicable", vehicle_types)]>>]

\* POST /store_data
store_data(payload) ==
    /\ Len(log) < MaxLog
    /\ log' = Append(log, payload)
    /\ last' = Served("StoreData", "", payload, 200, "stored")
    /\ UNCHANGED <<store, pend, gone>>

\* GET /vehicle_counts
get_vehicle_counts ==
    LET r == CountAllResponse(log) IN
    /\ last' = Served("CountAll", "", <<>>, r.status, r.body)
    /\ UNCHANGED <<store, log, pend, gone>>

\* GET /vehicle_counts_today, date.today() being today_date
get_vehicle_counts_today(today_date) ==
    LET r == CountTodayResponse(log, today_date) IN
    /\ last' = Served("CountToday", "", today_date, r.status, r.body)
    /\ UNCHANGED <<store, log, pend, gone>>

----------------------------------------------------------------------------
(* Concurrent handlers: the find_one and the write of create_config and of    *)
(* POST /gate/{camera_id} are two store operations; another handler's        *)
(* operation may come between them.  A handler serves one request.           *)

Handlers == 1..MaxHandlers

Idle == [pc |-> "idle"]

\* create_config, line 109
create_lookup(h, config) ==
    /\ pend[h].pc = "idle"
    /\ pend' = [pend EXCEPT ![h] = [pc |-> "found", op |-> "Create", cam |-> config.camera_id,
                                    arg |-> config, existing |-> Lookup(store, config.camera_id)]]
    /\ UNCHANGED <<store, log, last, gone>>

\* create_config, lines 110-119
create_write(h) ==
    /\ pend[h].pc = "found" /\ pend[h].op = "Create"
    /\ LET r == CreateWrite(store, pend[h].arg, pend[h].existing) IN
       /\ store' = r.store
       /\ last' = Served("Create", pend[h].cam, pend[h].arg, r.status, r.body)
       /\ pend' = [pend EXCEPT ![h] = [pc |-> "done", op |-> "Create", cam |-> pend[h].cam,
                                       arg |-> pend[h].arg, status |-> r.status]]
    /\ UNCHANGED <<log, gone>>

\* POST /gate/{camera_id}, line 159
gate_lookup(h, camera_id, gate_config) ==
    /\ pend[h].pc = "idle"
    /\ pend' = [pend EXCEPT ![h] = [pc |-> "found", op |-> "UpsertGateList", cam |-> camera_id,
                                    arg |-> gate_config, existing |-> Lookup(store, camera_id)]]
    /\ UNCHANGED <<store, log, last, gone>>

\* POST /gate/{camera_id}, lines 162-174
gate_write(h) ==
    /\ pend[h].pc = "found" /\ pend[h].op = "UpsertGateList"
    /\ LET r == GateWrite(store, pend[h].cam, pend[h].arg, pend[h].existing) IN
       /\ store' = r.store
       /\ last' = Served("UpsertGateList", pend[h].cam, pend[h].arg, r.status, r.body)
       /\ pend' = [pend EXCEPT ![h] = [pc |-> "done", op |-> "UpsertGateList", cam |-> pend[h].cam,
                                       arg |-> pend[h].arg, existing |-> pend[h].existing,
                                       status |-> r.status]]
    /\ UNCHANGED <<log, gone>>

----------------------------------------------------------------------------
(* Specifications *)

GateA == [type |-> "in", id |-> "g1", trip_line |-> TripA, dir_line |-> DirA]
GateB == [type |-> "out", id |-> "g1", trip_line |-> TripA, dir_line |-> DirA]
GateC == [type |-> "in", id |-> "g2", trip_line |-> TripA, dir_line |-> DirA]

\* the request bodies each specification explores
PlainConfigs == {c \in CameraConfig : c.rtsp_url = "rtsp://a" /\ c.gate \in {<<>>, <<GateA>>}}
GateBodies == {GateA, GateB, GateC}

\* the camera-level operations
Next ==
    \/ \E config \in CameraConfig : create_config(config)
    \/ \E camera_id \in CameraIds, rtsp_url \in Urls : update_rtsp_url(camera_id, rtsp_url)
    \/ \E segment \in CameraIds : delete_config(segment)
    \/ \E camera_id \in CameraIds : upsert_gate_list(camera_id, <<GateA>>)

Spec == Init /\ [][Next]_vars

\* the gate operations, on camera "1", beside creation and deletion of cameras
NextGate ==
    \/ \E config \in PlainConfigs : create_config(config)
    \/ \E segment \in CameraIds : delete_config(segment)
    \/ \E gate_config \in SeqUpTo(GateBodies, MaxBatch) : upsert_gate_list("1", gate_config)
    \/ \E gate_id \in GateIds, gate_config \in GateBodies : replace_gate("1", gate_id, gate_config)
    \/ \E gate_id \in GateIds : delete_gate("1", gate_id)

SpecGate == Init /\ [][NextGate]_vars

\* the wrong-parking operations, on camera "1"
NextParking ==
    \/ \E config \in PlainConfigs : create_config(config)
    \/ upsert_gate_list("1", <<>>)
    \/ \E items \in SeqUpTo(WrongParkingROI, MaxBatch) : update_wrong_parking_config("1", items)
    \/ \E id \in ParkingIds : delete_wrong_parking("1", id)

SpecParking == Init /\ [][NextParking]_vars

\* a day on which every vehicle type was seen at a gate that is neither entry nor exit
FullDay ==
    [i \in 1..Len(vehicle_types) |->
        [camera_id |-> 1, gate |-> [type |-> "NotApplicable"], vehicle |-> vehicle_types[i],
         plate_type |-> "private", license_plate |-> "KA01AB1234", plate_img |-> "img",
         timestamp |-> Stamp(Today, Midnight)]]

InitCount ==
    /\ store = <<>>
    /\ log \in {<<>>, FullDay}
    /\ last = NoRequest
    /\ pend = <<>>
    /\ gone = {}

NextCount ==
    \/ \E payload \in Payload : store_data(payload)
    \/ get_vehicle_counts
    \/ get_vehicle_counts_today(Today)

SpecCount == InitCount /\ [][NextCount]_vars

\* a camera registered before the concurrent requests arrive
Registered ==
    [camera_id |-> "1", rtsp_url |-> "rtsp://a", algorithm |-> "anpr",
     gate |-> <<GateA>>, wrong_parking |-> <<>>]

InitConc ==
    /\ store \in {<<>>, <<Registered>>}
    /\ log = <<>>
    /\ last = NoRequest
    /\ pend = [h \in Handlers |-> Idle]
    /\ gone = {}

NextConc ==
    \/ \E h \in Handlers, config \in {c \in PlainConfigs : c.gate = <<>>} : create_lookup(h, config)
    \/ \E h \in Handlers : create_write(h)
    \/ \E h \in Handlers, camera_id \in CameraIds, gate_config \in {<<GateB>>, <<GateC>>} :
           gate_lookup(h, camera_id, gate_config)
    \/ \E h \in Handlers : gate_write(h)

SpecConc == InitConc /\ [][NextConc]_vars

----------------------------------------------------------------------------
(* What the claims are stated with *)

HasCamera(s, camera_id) == \E k \in 1..Len(s) : s[k].camera_id = camera_id
DocIndex(s, camera_id) == CHOOSE k \in 1..Len(s) : s[k].camera_id = camera_id
DocsOf(s, camera_id) == {k \in 1..Len(s) : s[k].camera_id = camera_id}

\* s and u hold the same documents but for document k
SameBut(s, u, k) == Len(s) = Len(u) /\ \A j \in 1..Len(s) : j # k => s[j] = u[j]

\* documents d and e agree but for one field
SameFieldsBut(d, e, field) ==
    /\ DOMAIN d \ {field} = DOMAIN e \ {field}
    /\ \A f \in DOMAIN d \ {field} : d[f] = e[f]

\* xs without the elements whose id is id
Without(xs, id) == SelectSeq(xs, LAMBDA x : x.id # id)

----------------------------------------------------------------------------
(* C1 *)

\* C1: in every reachable state, also when the lookup and the write of concurrent
\* Create and UpsertGateList handlers interleave, the store holds at most one
\* document per camera_id, and a Create for a camera_id that has a document
\* reports Conflict (400) and adds no document.
C1_CameraIdUnique ==
    /\ \A camera_id \in CameraIds : Cardinality(DocsOf(store, camera_id)) <= 1
    /\ (last.op = "Create" /\ HasCamera(last.pre, last.cam))
           => (last.status = 400 /\ store = last.pre)

----------------------------------------------------------------------------
(* C2 *)

\* C2: Delete called with the camera_id of a stored document succeeds, removes
\* exactly that document and leaves every other document unchanged; it reports
\* NotFound only when no document has that camera_id.
C2_DeleteRemovesStored ==
    last.op = "Delete" =>
        /\ last.status = 404 => ~HasCamera(last.pre, last.cam)
        /\ HasCamera(last.pre, last.cam) =>
               /\ last.status = 200
               /\ store = RemoveAt(last.pre, DocIndex(last.pre, last.cam))
               /\ ~HasCamera(store, last.cam)

----------------------------------------------------------------------------
(* C3 *)

\* C3: UpdateStreamURL reports NotFound exactly when no document has the
\* camera_id, and then changes nothing; for an existing document and every
\* rtsp_url, equal to the stored one or not, it reports success, the document's
\* rtsp_url is the given value and nothing else has changed.
C3_UpdateStreamURL ==
    last.op = "UpdateStreamURL" =>
        IF HasCamera(last.pre, last.cam)
        THEN LET k == DocIndex(last.pre, last.cam) IN
             /\ last.status = 200
             /\ SameBut(store, last.pre, k)
             /\ store[k].rtsp_url = last.arg
             /\ SameFieldsBut(store[k], last.pre[k], "rtsp_url")
        ELSE last.status = 404 /\ store = last.pre

----------------------------------------------------------------------------
(* C4 *)

\* C4: UpsertGateList appends and never replaces or deduplicates: after a call
\* the camera's gate list is the list it had before followed by the call's
\* gates in order (its length the sum of the two lengths, also when ids
\* repeat), nothing else has changed, and for a camera that did not exist the
\* call adds a document holding only camera_id and gate.
C4_UpsertGateListAppends ==
    last.op = "UpsertGateList" =>
        /\ last.status = 200
        /\ IF HasCamera(last.pre, last.cam)
           THEN LET k == DocIndex(last.pre, last.cam) IN
                /\ SameBut(store, last.pre, k)
                /\ SameFieldsBut(store[k], last.pre[k], "gate")
                /\ store[k].gate = last.pre[k].gate \o last.arg
                /\ Len(store[k].gate) = Len(last.pre[k].gate) + Len(last.arg)
           ELSE /\ store = Append(last.pre, [camera_id |-> last.cam, gate |-> last.arg])
                /\ DOMAIN store[Len(store)] = {"camera_id", "gate"}

\* C4 witness: a call on an existing camera whose list already holds one of the
\* ids the call brings
C4_Witness ==
    /\ last.op = "UpsertGateList"
    /\ HasCamera(last.pre, last.cam)
    /\ last.arg # <<>>
    /\ IdsOf(last.arg) \cap IdsOf(last.pre[DocIndex(last.pre, last.cam)].gate) # {}
    /\ Len(store[DocIndex(store, last.cam)].gate) = MaxGates

----------------------------------------------------------------------------
(* C5 *)

\* C5: ReplaceGate reports NotFound and changes nothing when the camera does not
\* exist or its gate list has no element with the gate_id; otherwise it succeeds
\* and one position of the list, one that held the gate_id, now holds the given
\* gate, while the length, every other element, the camera's other fields and
\* all other documents are unchanged.
C5_ReplaceGateFrame ==
    last.op = "ReplaceGate" =>
        IF HasCamera(last.pre, last.cam)
               /\ last.arg.gate_id \in IdsOf(last.pre[DocIndex(last.pre, last.cam)].gate)
        THEN LET k == DocIndex(last.pre, last.cam) IN
             /\ last.status = 200
             /\ SameBut(store, last.pre, k)
             /\ SameFieldsBut(store[k], last.pre[k], "gate")
             /\ \E i \in 1..Len(last.pre[k].gate) :
                    /\ last.pre[k].gate[i].id = last.arg.gate_id
                    /\ store[k].gate = [last.pre[k].gate EXCEPT ![i] = last.arg.gate]
        ELSE last.status = 404 /\ store = last.pre

\* C5 witness: a replacement in a list that holds the gate_id twice, among three
\* elements, by a gate that differs from the stored one
C5_Witness ==
    /\ last.op = "ReplaceGate"
    /\ last.status = 200
    /\ LET old == last.pre[DocIndex(last.pre, last.cam)].gate IN
       /\ Len(old) = 3
       /\ Cardinality({i \in 1..3 : old[i].id = last.arg.gate_id}) = 2
       /\ store[DocIndex(store, last.cam)].gate # old

----------------------------------------------------------------------------
(* C6 *)

\* C6: DeleteGate removes every element of the camera's gate list whose id is the
\* gate_id and keeps the others in order, reporting NotFound exactly when nothing
\* was removed; once a DeleteGate has succeeded, and until an UpsertGateList or a
\* ReplaceGate brings the id back, the list holds no element with that id, and
\* ReplaceGate and DeleteGate for an id the list does not hold report NotFound.
C6_DeleteGateRemovesAll ==
    /\ last.op = "DeleteGate" =>
           LET old == GateListOf(last.pre, last.cam) IN
           /\ GateListOf(store, last.cam) = Without(old, last.arg)
           /\ last.status = (IF Without(old, last.arg) = old THEN 404 ELSE 200)
           /\ HasCamera(last.pre, last.cam) =>
                  /\ SameBut(store, last.pre, DocIndex(last.pre, last.cam))
                  /\ SameFieldsBut(store[DocIndex(last.pre, last.cam)],
                                   last.pre[DocIndex(last.pre, last.cam)], "gate")
           /\ ~HasCamera(last.pre, last.cam) => store = last.pre
    /\ \A p \in gone : p[2] \notin IdsOf(GateListOf(store, p[1]))
    /\ (last.op = "ReplaceGate" /\ last.arg.gate_id \notin IdsOf(GateListOf(last.pre, last.cam)))
           => last.status = 404
    /\ (last.op \in {"ReplaceGate", "DeleteGate"} /\ last.status = 404) => store = last.pre

\* C6 witness: a ReplaceGate that reports NotFound for an id a DeleteGate removed
\* from a list that still holds another gate
C6_Witness ==
    /\ last.op = "ReplaceGate"
    /\ last.status = 404
    /\ <<last.cam, last.arg.gate_id>> \in gone
    /\ GateListOf(store, last.cam) # <<>>

----------------------------------------------------------------------------
(* C7 *)

\* C7: DeleteWrongParking, as served by the handler the router dispatches, removes
\* the elements of wrong_parking with the id and reports success when at least
\* one was removed, and reports NotFound (404, not 500) and leaves the store
\* unchanged when the camera is absent or no element has the id.
C7_DeleteWrongParkingNotFound ==
    last.op = "DeleteWrongParking" =>
        LET old == ParkingListOf(last.pre, last.cam) IN
        IF last.arg \in IdsOf(old)
        THEN /\ last.status = 200
             /\ ParkingListOf(store, last.cam) = Without(old, last.arg)
        ELSE /\ last.status = 404
             /\ store = last.pre

----------------------------------------------------------------------------
(* C8 *)

RECURSIVE UpsertedInOrder(_, _)
\* xs after each item in turn has replaced the first element with its id, or has
\* been appended when no element has its id
UpsertedInOrder(xs, items) ==
    IF items = <<>> THEN xs
    ELSE LET it == Head(items)
             at == {i \in 1..Len(xs) : xs[i].id = it.id}
             first == CHOOSE i \in at : \A j \in at : i <= j
         IN UpsertedInOrder(IF at = {} THEN Append(xs, it) ELSE [xs EXCEPT ![first] = it],
                            Tail(items))

\* C8: UpsertWrongParking on an existing camera completes successfully for every
\* item list, also for an item equal to the element stored under its id, and
\* leaves wrong_parking as the per-item upsert of the items in order, nothing
\* else changed.
C8_UpsertWrongParkingSucceeds ==
    (last.op = "UpsertWrongParking" /\ HasCamera(last.pre, last.cam)) =>
        LET k == DocIndex(last.pre, last.cam) IN
        /\ last.status = 200
        /\ SameBut(store, last.pre, k)
        /\ SameFieldsBut(store[k], last.pre[k], "wrong_parking")
        /\ ParkingListOf(store, last.cam)
               = UpsertedInOrder(ParkingListOf(last.pre, last.cam), last.arg)

----------------------------------------------------------------------------
(* C9, C10 *)

Vocabulary == {"car", "truck", "bicycle", "motorcycle", "autorickshaw"}

GateTypeIs(r, type) == HasField(r.gate, "type") /\ r.gate.type = type

\* the number of records of s that satisfy P
Number(s, P(_)) == Cardinality({i \in 1..Len(s) : P(s[i])})

\* the row of one vehicle type over the records of s that satisfy W
RowOf(s, vt, W(_)) ==
    [type |-> vt,
     count |-> Number(s, LAMBDA r : r.vehicle = vt /\ W(r)),
     entry_count |-> Number(s, LAMBDA r : r.vehicle = vt /\ W(r) /\ GateTypeIs(r, "Entry")),
     exit_count |-> Number(s, LAMBDA r : r.vehicle = vt /\ W(r) /\ GateTypeIs(r, "Exit"))]

\* the summary row of one gate type over the in-vocabulary records that satisfy W
SummaryOf(s, name, type, W(_)) ==
    [type |-> name,
     count |-> Number(s, LAMBDA r : r.vehicle \in Vocabulary /\ W(r) /\ GateTypeIs(r, type))]

FiveRows(s, W(_)) ==
    <<RowOf(s, "car", W), RowOf(s, "truck", W), RowOf(s, "bicycle", W),
      RowOf(s, "motorcycle", W), RowOf(s, "autorickshaw", W)>>

\* today's-start <= timestamp <= today's-end, as strings
IsToday(r, day) ==
    StrLeq(Stamp(day, Midnight), r.timestamp) /\ StrLeq(r.timestamp, Stamp(day, LastSecond))

\* C9: CountToday returns a report and not an error for every content of the log,
\* the empty log included: the five rows and the summary rows entry_count,
\* exit_count and N/A, counted over exactly the records stamped within today.
C9_CountTodayReports ==
    last.op = "CountToday" =>
        /\ last.status = 200
        /\ last.body = FiveRows(log, LAMBDA r : IsToday(r, last.arg))
               \o <<SummaryOf(log, "entry_count", "Entry", LAMBDA r : IsToday(r, last.arg)),
                    SummaryOf(log, "exit_count", "Exit", LAMBDA r : IsToday(r, last.arg)),
                    SummaryOf(log, "N/A", "NotApplicable", LAMBDA r : IsToday(r, last.arg))>>

\* C10: CountAll returns, for each of the five vehicle types, the number of
\* records with that vehicle (whatever their gate.type), of those with gate.type
\* Entry and of those with gate.type Exit, then the summary rows entry_count and
\* exit_count; a record whose vehicle is outside the vocabulary changes no value.
C10_CountAllCounts ==
    last.op = "CountAll" =>
        /\ last.status = 200
        /\ last.body = FiveRows(log, LAMBDA r : TRUE)
               \o <<SummaryOf(log, "entry_count", "Entry", LAMBDA r : TRUE),
                    SummaryOf(log, "exit_count", "Exit", LAMBDA r : TRUE)>>
        /\ last.body[6].count = last.body[1].entry_count + last.body[2].entry_count
               + last.body[3].entry_count + last.body[4].entry_count + last.body[5].entry_count
        /\ last.body[7].count = last.body[1].exit_count + last.body[2].exit_count
               + last.body[3].exit_count + last.body[4].exit_count + last.body[5].exit_count
        /\ last.body = CountAllResponse(SelectSeq(log, LAMBDA r : r.vehicle \in Vocabulary)).body

\* C10 witness: a report over a log that holds a bus seen at an entry gate and a
\* car whose gate has no type
C10_Witness ==
    /\ last.op = "CountAll"
    /\ \E i \in 1..Len(log) : log[i].vehicle = "bus" /\ GateTypeIs(log[i], "Entry")
    /\ \E i \in 1..Len(log) : log[i].vehicle = "car" /\ ~HasField(log[i].gate, "type")
    /\ last.body[1].count = 1
    /\ last.body[6].count = 0

----------------------------------------------------------------------------
(* C11 *)

\* handler h has answered an UpsertGateList for a camera its find_one found
UpsertedExisting(h, camera_id) ==
    /\ pend[h].pc = "done"
    /\ pend[h].op = "UpsertGateList"
    /\ pend[h].cam = camera_id
    /\ pend[h].status = 200
    /\ pend[h].existing.found

\* C11: when two UpsertGateList requests for the same existing camera_id are
\* handled concurrently, their find_one and their write interleaved in any order,
\* and no other request is served, then once both have reported success the
\* camera's gate list holds the list it had before the first of them (the
\* shorter of the two lists they read) followed by the gates of both, so its
\* length is the prior length plus the lengths of both requests.
C11_NoGateLost ==
    \A h1, h2 \in Handlers, camera_id \in CameraIds :
        (/\ h1 # h2
         /\ UpsertedExisting(h1, camera_id)
         /\ UpsertedExisting(h2, camera_id)
         /\ \A h \in Handlers \ {h1, h2} : pend[h].pc = "idle")
        => LET read1 == GetOr(pend[h1].existing.doc, "gate", <<>>)
               read2 == GetOr(pend[h2].existing.doc, "gate", <<>>)
               prior == IF Len(read1) <= Len(read2) THEN Len(read1) ELSE Len(read2)
           IN Len(GateListOf(store, camera_id))
                  = prior + Len(pend[h1].arg) + Len(pend[h2].arg)

====
